---- MODULE Spec2Model ----
(***************************************************************************)
(* Model of node-red-contrib-sqlite-link-insert (sqlite-link-insert.js):   *)
(* the 'input' handler of the node as a state machine over its await       *)
(* points, the pure helpers it calls as operators, and the SQLite store    *)
(* behind the sqlite3 driver as tables of rows with surrogate ids.         *)
(***************************************************************************)
EXTENDS Integers, Sequences, FiniteSets, TLC

\* ---------------------------------------------------------------- bounds
\* Most source rows one group reads from the message.
MaxRows == 2
\* The same, when invocations overlap.
MaxRowsConc == 1
\* Largest configured chunkSize that is explored.
MaxChunk == 2
\* Invocations that may be in flight on the node at once.
MaxInv == 2

\* Rewrites of the config file.
MaxFileChanges == 1

\* chunkSize the handler falls back to: Number(runCfg.chunkSize || 500).
DefaultChunkSize == 500

Invs == 1..MaxInv

\* ---------------------------------------------------------------- values
\* A JavaScript value: a string (k = "s", text v), a number of the message
\* (k = "n", v its decimal text, what String() gives), a surrogate id (k = "id",
\* the number n), null or undefined.
Str(s) == [k |-> "s", v |-> s, n |-> 0]
Num(t) == [k |-> "n", v |-> t, n |-> 0]
IdVal(i) == [k |-> "id", v |-> "", n |-> i]
Null == [k |-> "null", v |-> "", n |-> 0]
Undefined == [k |-> "undef", v |-> "", n |-> 0]

\* v == null in JavaScript: null or undefined.
IsNullish(x) == x.k \in {"null", "undef"}

\* String(v ?? ''): the text of a value as one token; nullish gives ''.
StringOrEmpty(x) == IF IsNullish(x) THEN "" ELSE x.v

\* arr.join(S): the parts with the separator between them. A text is the
\* sequence of its tokens, so equal texts are equal sequences.
RECURSIVE Join(_, _)
Join(parts, S) ==
    IF Len(parts) = 0 THEN <<>>
    ELSE IF Len(parts) = 1 THEN <<parts[1]>>
    ELSE <<parts[1], S>> \o Join(Tail(parts), S)

SeqMap(Op(_), s) == [i \in 1..Len(s) |-> Op(s[i])]

Range(s) == {s[i] : i \in 1..Len(s)}

SetMax(S) == CHOOSE x \in S : \A y \in S : y <= x

\* ---------------------------------------------------------------- utilities
\* chunkify(arr, n): slices [i, i+n) for i = 0, n, 2n, ... while i < arr.length.
RECURSIVE chunkifyFrom(_, _, _)
chunkifyFrom(arr, n, i) ==
    IF i > Len(arr) THEN <<>>
    ELSE LET hi == IF i + n - 1 > Len(arr) THEN Len(arr) ELSE i + n - 1
         IN  <<SubSeq(arr, i, hi)>> \o chunkifyFrom(arr, n, i + n)

chunkifyDropTail(arr, n) ==
    LET full == Len(arr) \div n
    IN  [c \in 1..full |-> SubSeq(arr, (c - 1) * n + 1, c * n)]

chunkify(arr, n) == chunkifyFrom(arr, n, 1)

\* qid(name) throws 'Invalid identifier' for a non-string or empty name; the
\* names of the model are strings, so the empty one is the invalid one.
qidOk(name) == name # ""

\* transforms[name] applied by applyTransform; an unknown name is 'none'.
applyTransform(v, name) ==
    CASE name = "string" -> IF IsNullish(v) THEN Str("") ELSE v
      [] name = "nz" -> IF IsNullish(v) \/ v.v = "" \/ v.v = "N/A" THEN Null ELSE v
      [] OTHER -> v

\* typedGet: 'str' returns the configured text itself, 'jsonata' evaluates the
\* expression against the row context (here: a field name; a missing field is
\* undefined).
typedGet(type, value, rowCtx) ==
    CASE type = "jsonata" ->
           IF value \in DOMAIN rowCtx THEN rowCtx[value] ELSE Undefined
      [] OTHER -> Str(value)

\* ---------------------------------------------------------------- KeySpec
NoSpec ==
    [enabled |-> FALSE, alias |-> "", mode |-> "", columns |-> <<>>,
     template |-> "", separator |-> "|", selectMissing |-> FALSE, idColumn |-> "id"]

\* normKeySpec(group): null (NoSpec) unless keySpec.enabled; alias, mode,
\* separator and idColumn are defaulted; empty byColumns columns are taken
\* from upsertKeys when conflict is 'upsert'.
normKeySpec(group) ==
    LET ks == group.keySpec
        cols0 == ks.columns
        spec == [enabled |-> TRUE,
                 alias |-> IF ks.alias # "" THEN ks.alias
                           ELSE IF group.alias # "" THEN group.alias ELSE group.table,
                 mode |-> IF ks.mode # "" THEN ks.mode ELSE "byColumns",
                 columns |-> cols0,
                 template |-> ks.template,
                 separator |-> IF ks.separator # "" THEN ks.separator ELSE "|",
                 selectMissing |-> ks.selectMissing,
                 idColumn |-> IF ks.idColumn # "" THEN ks.idColumn ELSE "id"]
    IN  IF ~ks.enabled THEN NoSpec
        ELSE IF (ks.mode = "" \/ ks.mode = "byColumns") /\ Len(cols0) = 0
                /\ group.conflict = "upsert" /\ Len(group.upsertKeys) > 0
             THEN [spec EXCEPT !.columns = group.upsertKeys]
             ELSE spec

\* keyOfMappedRow(mapped, spec): the byColumns key of a mapped row. (A
\* byTemplate key substitutes the placeholders of the template; the template
\* of the model is one placeholder, the column named by spec.template.)
keyOfMappedRow(mapped, spec) ==
    LET val(c) == IF c \in DOMAIN mapped THEN StringOrEmpty(mapped[c]) ELSE ""
    IN  IF ~spec.enabled THEN <<"">>
        ELSE IF spec.mode = "byColumns" /\ Len(spec.columns) > 0
             THEN Join(SeqMap(val, spec.columns), spec.separator)
        ELSE IF spec.mode = "byTemplate" /\ spec.template # ""
             THEN <<val(spec.template)>>
        ELSE <<"">>

\* composeKeyWithSpec(spec, provided, sep) for a scalar provided value: a
\* string or number is String(provided), null/undefined become ''.
composeKeyWithSpec(spec, provided) ==
    IF ~spec.enabled \/ spec.mode = "" THEN <<StringOrEmpty(provided)>>
    ELSE IF provided.k \in {"s", "n"} THEN <<provided.v>>
    ELSE <<StringOrEmpty(provided)>>

\* One alias of ctxMaps: absent (has = FALSE) or { map }. by and gi record the
\* invocation and the group position whose step stored the entry.
NoCtx == [has |-> FALSE, map |-> <<>>, by |-> 0, gi |-> 0]

Lookup(f, x, dflt) == IF x \in DOMAIN f THEN f[x] ELSE dflt

\* resolveLookupId(node, fromAlias, ctxMaps, keySpecs, provided): null when the
\* alias has no map or the map has no entry for the composed key.
resolveLookupId(fromAlias, ctxM, keySp, provided) ==
    LET ctx == Lookup(ctxM, fromAlias, NoCtx)
        spec == Lookup(keySp, fromAlias, NoSpec)
        key == composeKeyWithSpec(spec, provided)
    IN  IF ~ctx.has THEN Null
        ELSE IF key \in DOMAIN ctx.map THEN IdVal(ctx.map[key]) ELSE Null

\* ---------------------------------------------------------------- Row Mapper
\* mapRow over the mapping entries from position i on; out is the row built so
\* far. A strict lookup that resolves to null throws (ok = FALSE).
RECURSIVE mapEntries(_, _, _, _, _, _)
mapEntries(mapping, i, srcRow, ctxM, keySp, out) ==
    IF i > Len(mapping) THEN [ok |-> TRUE, row |-> out]
    ELSE LET m == mapping[i]
         IN  IF m.col = "" THEN mapEntries(mapping, i + 1, srcRow, ctxM, keySp, out)
             ELSE IF m.source = "lookup"
             THEN LET val == typedGet(m.valueType, m.value, srcRow.f)
                      id == resolveLookupId(m.fromGroup, ctxM, keySp, val)
                  IN  IF id = Null /\ m.strict THEN [ok |-> FALSE, row |-> out]
                      ELSE mapEntries(mapping, i + 1, srcRow, ctxM, keySp,
                                      (m.col :> id) @@ out)
             ELSE LET raw == typedGet(m.srcType, m.src, srcRow.f)
                  IN  mapEntries(mapping, i + 1, srcRow, ctxM, keySp,
                                 (m.col :> applyTransform(raw, m.transform)) @@ out)

mapRowNoStrict(group, srcRow, ctxM, keySp) ==
    IF group.autoMap
    THEN [ok |-> TRUE, row |-> IF srcRow.isObj THEN srcRow.f ELSE <<>>]
    ELSE mapEntries([i \in 1..Len(group.mapping) |->
                        [group.mapping[i] EXCEPT !.strict = FALSE]],
                    1, srcRow, ctxM, keySp, <<>>)

\* mapRow(RED, node, msg, group, srcRow): autoMap copies the own fields of a
\* record (a non-record gives {}), otherwise the mapping is interpreted.
mapRow(group, srcRow, ctxM, keySp) ==
    IF group.autoMap
    THEN [ok |-> TRUE, row |-> IF srcRow.isObj THEN srcRow.f ELSE <<>>]
    ELSE mapEntries(group.mapping, 1, srcRow, ctxM, keySp, <<>>)

\* ---------------------------------------------------------------- SQL Builder
SeqFilter(s, Keep(_)) == SelectSeq(s, Keep)

Truthy(name) == name # ""

\* buildUpsert(table, keys, updateCols): '' when no key is left after
\* filter(Boolean), else ON CONFLICT (keys) DO NOTHING | DO UPDATE SET ...
buildUpsert(keys, updateCols) ==
    LET k == SeqFilter(keys, Truthy)
    IN  IF Len(k) = 0 THEN [ok |-> TRUE, onConflict |-> "", keys |-> <<>>, set |-> <<>>]
        ELSE IF Len(updateCols) = 0
             THEN [ok |-> TRUE, onConflict |-> "nothing", keys |-> k, set |-> <<>>]
             ELSE [ok |-> \A i \in 1..Len(updateCols) : qidOk(updateCols[i]),
                   onConflict |-> "update", keys |-> k, set |-> updateCols]

\* buildInsertSQL(group, cols): the statement as its parts; ok = FALSE when
\* qid throws on the table, a column or an upsert column.
buildInsertSQL(group, cols) ==
    LET up == IF group.conflict = "upsert"
              THEN buildUpsert(group.upsertKeys, group.updateColumns)
              ELSE [ok |-> TRUE, onConflict |-> "", keys |-> <<>>, set |-> <<>>]
    IN  [ok |-> qidOk(group.table) /\ (\A i \in 1..Len(cols) : qidOk(cols[i])) /\ up.ok,
         verb |-> CASE group.conflict = "ignore" -> "INSERT OR IGNORE"
                    [] group.conflict = "replace" -> "INSERT OR REPLACE"
                    [] OTHER -> "INSERT",
         table |-> group.table,
         cols |-> cols,
         onConflict |-> up.onConflict,
         keys |-> up.keys,
         set |-> up.set]

\* ---------------------------------------------------------------- the store
\* The database file behind the sqlite3 driver: the tables the flows of the
\* README use (Departments, Employees) and one more. The columns are declared
\* without a type, so a bound value is stored as it is bound (a number as a
\* number, a string as text).
Tables == {"Departments", "Employees", "Audit"}

Columns(t) ==
    CASE t = "Departments" -> {"code"}
      [] t = "Employees" -> {"ext_id", "dept_id"}
      [] OTHER -> {"note", "tag"}

\* Columns under a UNIQUE index (the natural key of the table), if any.
UniqueCols(t) == IF t = "Departments" THEN {"code"} ELSE {}

\* Columns declared NOT NULL.
NotNullCols(t) == IF t = "Employees" THEN {"dept_id"} ELSE {}

EmptyStore == [t \in Tables |-> {}]

NextRowId(rows) == IF rows = {} THEN 1 ELSE SetMax({r.id : r \in rows}) + 1

\* db.prepare(sql): SQLite rejects an unknown table or column and an ON
\* CONFLICT target that is no UNIQUE index of the table.
StorePrepareOk(sql) ==
    /\ sql.table \in Tables
    /\ Range(sql.cols) \subseteq Columns(sql.table)
    /\ Range(sql.set) \subseteq Columns(sql.table)
    /\ sql.onConflict # "" => Range(sql.keys) = UniqueCols(sql.table)

\* stmt.run(params) on the rows of the statement's table: the row to write is
\* the bound parameters (unbound columns NULL); a NOT NULL or UNIQUE violation
\* fails the statement unless the conflict clause resolves it.
StoreRun(rows, sql, params) ==
    LET t == sql.table
        d == [c \in Columns(t) |-> IF c \in DOMAIN params THEN params[c] ELSE Null]
        nullBad == \E c \in NotNullCols(t) : d[c] = Null
        clash == {r \in rows : /\ UniqueCols(t) # {}
                                /\ \A c \in UniqueCols(t) : d[c] # Null /\ r.d[c] = d[c]}
        fresh == [id |-> NextRowId(rows), d |-> d]
    IN  IF nullBad
        THEN [ok |-> sql.verb = "INSERT OR IGNORE", rows |-> rows]
        ELSE IF clash = {} THEN [ok |-> TRUE, rows |-> rows \cup {fresh}]
        ELSE CASE sql.verb = "INSERT OR IGNORE" -> [ok |-> TRUE, rows |-> rows]
               [] sql.verb = "INSERT OR REPLACE" ->
                    [ok |-> TRUE, rows |-> (rows \ clash) \cup {fresh}]
               [] sql.onConflict = "nothing" -> [ok |-> TRUE, rows |-> rows]
               [] sql.onConflict = "update" ->
                    [ok |-> TRUE,
                     rows |-> (rows \ clash) \cup
                              {[r EXCEPT !.d = [c \in Columns(t) |->
                                    IF c \in Range(sql.set) THEN d[c] ELSE r.d[c]]]
                               : r \in clash}]
               [] OTHER -> [ok |-> FALSE, rows |-> rows]

\* The key the store computes for a row: COALESCE(col,'') terms concatenated
\* with the separator (buildKeyConcatExpr). One term alone keeps the storage
\* class of the column value; '||' gives text.
SqlKeyOfRow(r, spec) ==
    LET val(c) == IF r.d[c] = Null THEN "" ELSE r.d[c].v
    IN  [text |-> Len(spec.columns) > 1 \/ r.d[spec.columns[1]].k \in {"s", "null"},
         t |-> Join(SeqMap(val, spec.columns), spec.separator)]

\* WHERE (expr) IN (?, ...): the keys are bound as text and the expression has
\* no affinity, so only a text result equals a bound key.
SqlKeyMatches(r, spec, k) ==
    LET e == SqlKeyOfRow(r, spec) IN e.text /\ e.t = k

\* selectIdsByKeys(db, group, spec, keys): String(_k) -> id for the rows whose
\* key expression is among the distinct keys; rows come in rowid order, so a
\* later row overwrites an earlier one with the same key. ok = FALSE when qid
\* throws or the SELECT is rejected.
selectIdsByKeys(rows, group, spec, keys) ==
    IF Len(keys) = 0 THEN [ok |-> TRUE, map |-> <<>>]
    ELSE IF spec.mode # "byColumns" \/ Len(spec.columns) = 0 THEN [ok |-> TRUE, map |-> <<>>]
    ELSE IF ~(qidOk(spec.idColumn) /\ qidOk(group.table)
              /\ \A i \in 1..Len(spec.columns) : qidOk(spec.columns[i]))
         THEN [ok |-> FALSE, map |-> <<>>]
    ELSE IF ~(group.table \in Tables /\ Range(spec.columns) \subseteq Columns(group.table)
              /\ spec.idColumn = "id")
         THEN [ok |-> FALSE, map |-> <<>>]
    ELSE LET hit(k) == {r \in rows : SqlKeyMatches(r, spec, k)}
             found == {k \in Range(keys) : hit(k) # {}}
         IN  [ok |-> TRUE,
              map |-> [k \in found |-> SetMax({r.id : r \in hit(k)})]]

\* ---------------------------------------------------------------- configurations
NoKeySpec ==
    [enabled |-> FALSE, alias |-> "", mode |-> "", columns |-> <<>>, template |-> "",
     separator |-> "", selectMissing |-> FALSE, idColumn |-> ""]

ValueEntry(col, field) ==
    [col |-> col, source |-> "value", srcType |-> "jsonata", src |-> field,
     transform |-> "none", fromGroup |-> "", valueType |-> "", value |-> "",
     strict |-> FALSE]

LookupEntry(col, alias, field, strict) ==
    [col |-> col, source |-> "lookup", srcType |-> "", src |-> "", transform |-> "",
     fromGroup |-> alias, valueType |-> "jsonata", value |-> field, strict |-> strict]

\* README, Advanced Example A: Departments, auto-map, KeySpec on code.
DeptGroup(conflict) ==
    [table |-> "Departments", alias |-> "", source |-> "departments", autoMap |-> TRUE,
     mapping |-> <<>>, conflict |-> conflict, upsertKeys |-> <<"code">>,
     updateColumns |-> <<>>,
     keySpec |-> [NoKeySpec EXCEPT !.enabled = TRUE, !.mode = "byColumns",
                                   !.columns = <<"code">>]]

\* The same group with upsertKeys left empty: the key columns are named by
\* the KeySpec only.
DeptGroupKeySpecOnly == [DeptGroup("upsert") EXCEPT !.upsertKeys = <<>>]

\* README, Advanced Example A: Employees, dept_id by lookup of dept_code in the
\* Departments map. conflict is left unset in the saved configuration.
EmpGroup(strict) ==
    [table |-> "Employees", alias |-> "", source |-> "employees", autoMap |-> FALSE,
     mapping |-> <<ValueEntry("ext_id", "ext_id"),
                   LookupEntry("dept_id", "Departments", "dept_code", strict)>>,
     conflict |-> "", upsertKeys |-> <<>>, updateColumns |-> <<>>,
     keySpec |-> NoKeySpec]

\* An auto-mapped table without KeySpec.
AuditGroup ==
    [table |-> "Audit", alias |-> "", source |-> "audit", autoMap |-> TRUE,
     mapping |-> <<>>, conflict |-> "ignore", upsertKeys |-> <<>>,
     updateColumns |-> <<>>, keySpec |-> NoKeySpec]

\* An auto-mapped group whose source rows differ in their fields.
NotesGroup == [AuditGroup EXCEPT !.source = "notes", !.conflict = "none"]

\* A group with a byTemplate KeySpec ('{{note}}') that uses the alias of the
\* Departments group.
TemplateGroup ==
    [AuditGroup EXCEPT
        !.alias = "Departments",
        !.keySpec = [NoKeySpec EXCEPT !.enabled = TRUE, !.mode = "byTemplate",
                                      !.template = "note"]]

Conflicts == {"none", "ignore", "replace", "upsert"}

GroupLists ==
    UNION {{<<DeptGroup(c), EmpGroup(s)>>, <<EmpGroup(s), DeptGroup(c)>>}
           : c \in Conflicts, s \in BOOLEAN}
    \cup {<<DeptGroup("upsert"), EmpGroup(s), AuditGroup>> : s \in BOOLEAN}
    \cup {<<DeptGroupKeySpecOnly, EmpGroup(FALSE)>>}
    \cup {<<NotesGroup>>}
    \cup {<<DeptGroup("upsert"), TemplateGroup, EmpGroup(s)>> : s \in BOOLEAN}

TxModes == {"all", "perTable", "chunk", "off"}

\* chunkSize is read in 'chunk' mode only; the other modes keep the template's.
ChunkSizes(tm) == IF tm = "chunk" THEN 1..MaxChunk ELSE {DefaultChunkSize}

\* The connection settings of a configuration: none, or WAL and one extra
\* statement ('foreign_keys=ON;' splits into the statement and an empty rest).
NoPragmas == [enableWAL |-> FALSE, syncMode |-> "", extraPragmas |-> <<>>]

SomePragmas ==
    [enableWAL |-> TRUE, syncMode |-> "", extraPragmas |-> <<"foreign_keys=ON", "">>]

PragmasFor(gl) ==
    IF gl \in {<<DeptGroup("none"), EmpGroup(s)>> : s \in BOOLEAN}
    THEN SomePragmas ELSE NoPragmas

Configs ==
    UNION {{[txMode |-> tm, chunkSize |-> cs, continueOnError |-> coe, groups |-> gl,
             enableWAL |-> PragmasFor(gl).enableWAL,
             syncMode |-> PragmasFor(gl).syncMode,
             extraPragmas |-> PragmasFor(gl).extraPragmas]
            : cs \in ChunkSizes(tm), coe \in BOOLEAN, gl \in GroupLists}
           : tm \in TxModes}

\* The configurations of the nodes that use a config file: the node's own
\* saved configuration and the contents the file takes.
NodeCfg ==
    [txMode |-> "off", chunkSize |-> DefaultChunkSize, continueOnError |-> FALSE,
     groups |-> <<DeptGroup("upsert")>>,
     enableWAL |-> FALSE, syncMode |-> "", extraPragmas |-> <<>>]

FileConfig(coe) ==
    [NodeCfg EXCEPT !.txMode = "perTable", !.continueOnError = coe]

FileConfigs == {FileConfig(coe) : coe \in BOOLEAN}

\* The nodes that share one config path.
WatchNodes == {1, 2}

\* The configurations under which termination of the handler is explored.
LiveConfigs ==
    {c \in Configs :
        c.groups \in {<<DeptGroup("upsert"), EmpGroup(TRUE)>>,
                      <<DeptGroup("upsert"), EmpGroup(FALSE)>>,
                      <<DeptGroup("none"), EmpGroup(FALSE)>>}}

\* The configurations under which overlapping invocations are explored.
ConcConfigs ==
    {[txMode |-> tm, chunkSize |-> DefaultChunkSize, continueOnError |-> coe,
      groups |-> gl, enableWAL |-> FALSE, syncMode |-> "", extraPragmas |-> <<>>]
     : tm \in {"perTable", "all"}, coe \in BOOLEAN,
       gl \in {<<DeptGroup("upsert"), EmpGroup(FALSE)>>,
               <<EmpGroup(FALSE), DeptGroup("upsert")>>}}

\* Department codes of the messages: a text code and a numeric one.
DeptCodes == {Str("ENG"), Num("7")}

\* The rows one source property of a message may hold.
SrcObj(f) == [isObj |-> TRUE, f |-> f]

RowsOf(source) ==
    CASE source = "departments" ->
           {SrcObj([code |-> c]) : c \in DeptCodes}
      [] source = "employees" ->
           {SrcObj([ext_id |-> Str("U1"), dept_code |-> c]) : c \in DeptCodes}
      [] source = "notes" ->
           {SrcObj([note |-> Str("x")]),
            SrcObj([note |-> Str("x"), tag |-> Str("t")]),
            [isObj |-> FALSE, f |-> <<>>]}
      [] OTHER ->
           {SrcObj([note |-> Str("x")]), SrcObj("" :> Str("x"))}

\* The rows explored when invocations overlap: one row value per source.
ConcRowsOf(source) ==
    CASE source = "departments" -> {SrcObj([code |-> Str("ENG")])}
      [] source = "employees" ->
           {SrcObj([ext_id |-> Str("U1"), dept_code |-> Str("ENG")])}
      [] OTHER -> {SrcObj([note |-> Str("x")])}

SeqsUpTo(S, n) == UNION {[1..k -> S] : k \in 0..n}

\* ---------------------------------------------------------------- state
VARIABLES
    objs,       \* configuration objects: objs[n] is the saved configuration of
                \* node n (node.txMode, ..., node.groups), the later ones are
                \* the objects parsed from the config file
    nodes,      \* per node: useConfigFile, lockToFile, watchFile, lockedCfg, state
    file,       \* content of the config file
    watchers,   \* the entry of the watchers map for the config path
    nodeOf,     \* per invocation: the node that receives the message
    nInv,       \* messages this node receives in the behaviour
    pc,         \* per invocation: the await point the handler is at
    local,      \* per invocation: txMode, chunkSize, continueOnError copied at entry
    gi,         \* per invocation: index of the current group (1-based)
    rowsIn,     \* per invocation: source rows of the current group
    ri,         \* per invocation: index of the next source row to map
    mapped,     \* per invocation: rows mapped so far in the current group
    cols,       \* per invocation: column list of the current group
    chunks,     \* per invocation: the batches of the current group
    ci,         \* per invocation: index of the current batch
    ei,         \* per invocation: index of the next row of the batch to run
    totals,     \* per state slot: run-wide counters
    byTable,    \* per state slot: per-table counters
    ctxMaps,    \* per state slot: alias -> { map }
    keySpecs,   \* per state slot: alias -> KeySpec
    conn,       \* per invocation: the sqlite3 connection
    store,      \* committed contents of the database file
    dirty,      \* uncommitted contents seen by the connection holding the write lock
    lock,       \* invocation whose connection holds the write lock, 0 if none
    outcome,    \* per invocation: "none", "summary" (send + done()) or "error" (done(err))
    summary,    \* per invocation: msg.sqlite as sent
    scopes,     \* per invocation: history of transaction scopes begun
    hist        \* per invocation: history of the run (observation only)

ctl == <<pc, local, gi, rowsIn, ri, mapped, cols, chunks, ci, ei>>
mem == <<totals, byTable, ctxMaps, keySpecs>>
dbv == <<conn, store, dirty, lock>>
out == <<outcome, summary>>
prov == <<nodes, file, watchers, nodeOf>>
vars == <<objs, prov, nInv, ctl, mem, dbv, out, scopes, hist>>

\* The saved configuration of the first node.
cfg == objs[1]

\* The configuration object an invocation runs on (runCfg: lockedCfg, or the
\* node's own fields and node.groups).
RunCfg(inv) == objs[local[inv].obj]

ZeroTotals == [inserted |-> 0, updated |-> 0, errors |-> 0, skipped |-> 0]
ZeroPer == [inserted |-> 0, updated |-> 0, errors |-> 0, skipped |-> 0, total |-> 0]

NoLocal ==
    [txMode |-> "", chunkSize |-> 0, continueOnError |-> FALSE,
     enableWAL |-> FALSE, syncMode |-> "", extraPragmas |-> <<>>, obj |-> 0]
NoConn == [open |-> FALSE, inTx |-> FALSE, stmts |-> 0, pragmas |-> 0]
NoSummary == [ok |-> FALSE, counts |-> ZeroTotals, tables |-> <<>>]

NoHist ==
    [err |-> "",            \* what made the run throw to the outer catch
     ident |-> FALSE,       \* qid threw 'Invalid identifier' in this run
     errScope |-> -1,       \* scope active when a fatal suppressible error was thrown
     baseStore |-> EmptyStore,  \* committed contents when the current batch began
     errStore |-> EmptyStore,   \* committed contents when a row failed fatally
     rowErr |-> FALSE,      \* a row execution failed with continueOnError = false
     pragmaWarn |-> FALSE,  \* a PRAGMA statement failed and was warned about
     lookups |-> {},        \* lookups made: group, alias, key, result, entry read
     nRead |-> 0,           \* source rows read by this invocation
     groups |-> <<>>]       \* per group position: what happened to the group

NoGroupHist ==
    [state |-> "new", n |-> 0, mapFail |-> 0, execOk |-> 0, execFail |-> 0,
     begun |-> 0, committed |-> 0, rolledBack |-> 0, per0 |-> ZeroPer, per1 |-> ZeroPer]

\* The per-invocation objects of the handler (totals, byTable, ctxMaps,
\* keySpecs) are created inside it: each invocation has its own.
StateSlotShared(inv) == 1

StateSlot(inv) == inv

\* Longest source array explored.
RowBound == IF nInv > 1 THEN MaxRowsConc ELSE MaxRows

\* typedGet(..., g.sourceType, g.source): the arrays the message may hold.
SourceArrays(source) ==
    SeqsUpTo(IF nInv > 1 THEN ConcRowsOf(source) ELSE RowsOf(source), RowBound)

\* What a connection reads: its own uncommitted writes while it holds the
\* write lock, the committed contents otherwise.
View(inv) == IF lock = inv THEN dirty ELSE store

\* A node that does not use a config file, after its constructor has run.
PlainNode ==
    [useConfigFile |-> FALSE, lockToFile |-> FALSE, watchFile |-> FALSE,
     lockedCfg |-> 0, st |-> "ready", sawChange |-> FALSE, watching |-> FALSE]

NoFile == [exists |-> FALSE, cfg |-> <<>>, ver |-> 0]

NoWatcher == [exists |-> FALSE, count |-> 0, owner |-> 0, pending |-> 0]

\* const runCfg = lockedCfg || { txMode: node.txMode, ..., groups: node.groups }:
\* the object whose groups the run of node n works on.
RunObj(n) == IF nodes[n].lockedCfg # 0 THEN nodes[n].lockedCfg ELSE n

\* The handler's state before any message.
InitHandler(n) ==
    /\ nInv = n
    /\ pc = [i \in Invs |-> "idle"]
    /\ local = [i \in Invs |-> NoLocal]
    /\ gi = [i \in Invs |-> 0]
    /\ rowsIn = [i \in Invs |-> <<>>]
    /\ ri = [i \in Invs |-> 0]
    /\ mapped = [i \in Invs |-> <<>>]
    /\ cols = [i \in Invs |-> <<>>]
    /\ chunks = [i \in Invs |-> <<>>]
    /\ ci = [i \in Invs |-> 0]
    /\ ei = [i \in Invs |-> 0]
    /\ totals = [i \in Invs |-> ZeroTotals]
    /\ byTable = [i \in Invs |-> <<>>]
    /\ ctxMaps = [i \in Invs |-> <<>>]
    /\ keySpecs = [i \in Invs |-> <<>>]
    /\ conn = [i \in Invs |-> NoConn]
    /\ store = EmptyStore
    /\ dirty = EmptyStore
    /\ lock = 0
    /\ outcome = [i \in Invs |-> "none"]
    /\ summary = [i \in Invs |-> NoSummary]
    /\ scopes = [i \in Invs |-> <<>>]
    /\ hist = [i \in Invs |-> NoHist]

\* One node without config file, deployed with one of the configurations,
\* that receives n messages.
InitWith(configs, n) ==
    /\ objs \in {<<c>> : c \in configs}
    /\ nodes = <<PlainNode>>
    /\ file = NoFile
    /\ watchers = NoWatcher
    /\ nodeOf = [i \in Invs |-> 1]
    /\ InitHandler(n)

Init == InitWith(Configs, 1)

\* ---------------------------------------------------------------- helpers of the handler
RECURSIVE SetToSeq(_)
SetToSeq(S) ==
    IF S = {} THEN <<>>
    ELSE LET x == CHOOSE y \in S : TRUE IN <<x>> \o SetToSeq(S \ {x})

NonEmptyCol(m) == m.col # ""

MappingCol(m) == m.col

\* const alias = g.alias || g.table
AliasOf(g) == IF g.alias # "" THEN g.alias ELSE g.table

\* const cols = g.autoMap ? Object.keys(mapped[0])
\*                        : (g.mapping || []).map(m => m.col).filter(Boolean)
ColsOf(g, rows) ==
    IF g.autoMap THEN SetToSeq(DOMAIN rows[1])
    ELSE SeqMap(MappingCol, SeqFilter(g.mapping, NonEmptyCol))

\* const txMode = local.txMode === 'all' ? 'off' : (local.txMode || 'perTable')
ChunkTxMode(loc) ==
    IF loc.txMode = "all" THEN "off"
    ELSE IF loc.txMode = "" THEN "perTable" ELSE loc.txMode

Max2(a, b) == IF a >= b THEN a ELSE b

\* const chunks = local.txMode === 'chunk'
\*     ? chunkify(mapped, Math.max(1, local.chunkSize)) : [mapped]
ChunksOf(loc, rows) ==
    IF loc.txMode = "chunk" THEN chunkify(rows, Max2(1, loc.chunkSize)) ELSE <<rows>>

\* const params = cols.map(c => r[c] === undefined ? null : r[c])
ParamsOf(cs, r) ==
    [c \in Range(cs) |->
        IF c \in DOMAIN r /\ r[c] # Undefined THEN r[c] ELSE Null]

CountSuccessInserted(c, conflict) == [c EXCEPT !.inserted = @ + 1]

CountSuccessTwice(c, conflict) ==
    IF conflict \in {"replace", "upsert"}
    THEN [c EXCEPT !.updated = @ + 2]
    ELSE [c EXCEPT !.inserted = @ + 2]

\* if (g.conflict === 'replace' || g.conflict === 'upsert') updated++ else inserted++
CountSuccess(c, conflict) ==
    IF conflict \in {"replace", "upsert"}
    THEN [c EXCEPT !.updated = @ + 1]
    ELSE [c EXCEPT !.inserted = @ + 1]

CountErrorAsSkipped(c) == [c EXCEPT !.skipped = @ + 1]

\* per.errors++; totals.errors++
CountError(c) == [c EXCEPT !.errors = @ + 1]

PerOf(bt, t) == Lookup(bt, t, ZeroPer)

SetFn(f, x, v) == (x :> v) @@ f

\* Index of the scope that is Active on the connection, 0 if none.
ActiveScope(sc) ==
    IF \E i \in 1..Len(sc) : sc[i].st = "Active"
    THEN SetMax({i \in 1..Len(sc) : sc[i].st = "Active"})
    ELSE 0

EndScope(sc, st) ==
    LET a == ActiveScope(sc)
    IN  IF a = 0 THEN sc ELSE [sc EXCEPT ![a].st = st]

\* The lookups mapRow makes for one source row, with the entry of ctxMaps each reads.
LookupsOf(g, pos, srcRow, ctxM, keySp) ==
    IF g.autoMap THEN {}
    ELSE {LET m == g.mapping[i]
              val == typedGet(m.valueType, m.value, srcRow.f)
              ctx == Lookup(ctxM, m.fromGroup, NoCtx)
          IN  [gi |-> pos, alias |-> m.fromGroup, val |-> val,
               got |-> resolveLookupId(m.fromGroup, ctxM, keySp, val),
               has |-> ctx.has, by |-> ctx.by, pgi |-> ctx.gi]
          : i \in {j \in 1..Len(g.mapping) :
                     g.mapping[j].source = "lookup" /\ g.mapping[j].col # ""}}

GroupHist(h, pos) == IF pos \in DOMAIN h.groups THEN h.groups[pos] ELSE NoGroupHist

SetGroupHist(h, pos, gh) == [h EXCEPT !.groups = SetFn(h.groups, pos, gh)]

\* The connection's transaction state as the three helpers change it.
TxState(inv) ==
    [store |-> store, dirty |-> dirty, lock |-> lock, inTx |-> conn[inv].inTx,
     sc |-> scopes[inv]]

\* beginTx(mode, db): BEGIN unless mode is 'off'.
beginTx(mode, inv, kind, g, c) ==
    IF mode = "off" THEN TxState(inv)
    ELSE [TxState(inv) EXCEPT
            !.inTx = TRUE,
            !.sc = Append(@, [kind |-> kind, gi |-> g, ci |-> c, st |-> "Active"])]

\* commitTx(mode, db): COMMIT unless mode is 'off'.
commitTx(mode, inv) ==
    IF mode = "off" THEN TxState(inv)
    ELSE [store |-> View(inv), dirty |-> View(inv),
          lock |-> IF lock = inv THEN 0 ELSE lock,
          inTx |-> FALSE, sc |-> EndScope(scopes[inv], "Committed")]

rollbackTxNoop(mode, inv) == TxState(inv)

\* rollbackTx(mode, db): ROLLBACK unless mode is 'off'.
rollbackTx(mode, inv) ==
    IF mode = "off" THEN TxState(inv)
    ELSE [store |-> store, dirty |-> store,
          lock |-> IF lock = inv THEN 0 ELSE lock,
          inTx |-> FALSE, sc |-> EndScope(scopes[inv], "RolledBack")]

SetTx(inv, t) ==
    /\ store' = t.store
    /\ dirty' = t.dirty
    /\ lock' = t.lock
    /\ scopes' = [scopes EXCEPT ![inv] = t.sc]

\* ---------------------------------------------------------------- the input handler
\* node.on('input'): the effective configuration is copied, the database path
\* resolved and the connection opened with fresh per-invocation state.
Input(inv) ==
    /\ pc[inv] = "idle"
    /\ inv <= nInv
    /\ nodes[nodeOf[inv]].st # "closed"
    /\ LET o == RunObj(nodeOf[inv])
           runCfg == objs[o]
       IN  local' = [local EXCEPT ![inv] =
                    [txMode |-> IF runCfg.txMode = "" THEN "perTable" ELSE runCfg.txMode,
                     chunkSize |-> IF runCfg.chunkSize = 0 THEN DefaultChunkSize
                                   ELSE runCfg.chunkSize,
                     continueOnError |-> runCfg.continueOnError,
                     enableWAL |-> runCfg.enableWAL,
                     syncMode |-> runCfg.syncMode,
                     extraPragmas |-> runCfg.extraPragmas,
                     obj |-> o]]
    /\ \E pathOk \in BOOLEAN :
         IF ~pathOk
         THEN /\ pc' = [pc EXCEPT ![inv] = "failed"]
              /\ outcome' = [outcome EXCEPT ![inv] = "error"]
              /\ hist' = [hist EXCEPT ![inv].err = "dbpath"]
              /\ UNCHANGED <<mem, conn>>
         ELSE /\ pc' = [pc EXCEPT ![inv] = "pragma"]
              /\ conn' = [conn EXCEPT ![inv] = [NoConn EXCEPT !.open = TRUE]]
              /\ totals' = [totals EXCEPT ![StateSlot(inv)] = ZeroTotals]
              /\ byTable' = [byTable EXCEPT ![StateSlot(inv)] = <<>>]
              /\ ctxMaps' = [ctxMaps EXCEPT ![StateSlot(inv)] = <<>>]
              /\ keySpecs' = [keySpecs EXCEPT ![StateSlot(inv)] = <<>>]
              /\ UNCHANGED <<outcome, hist>>
    /\ UNCHANGED <<objs, prov, nInv, gi, rowsIn, ri, mapped, cols, chunks, ci, ei,
                   store, dirty, lock, summary, scopes>>

\* The PRAGMA statements of the effective configuration, in the order run:
\* journal_mode=WAL, synchronous=<mode>, then the non-empty trimmed parts of
\* extraPragmas split at ';'.
PragmasOf(loc) ==
    (IF loc.enableWAL THEN <<"journal_mode=WAL">> ELSE <<>>)
    \o (IF loc.syncMode # "" THEN <<"synchronous">> ELSE <<>>)
    \o SeqFilter(loc.extraPragmas, Truthy)

AfterPragmasFatal(failAt) == IF failAt > 0 THEN "failed" ELSE "group"

\* catch (e) { node.warn(`PRAGMA warning: ...`) }: the handler goes on.
AfterPragmas(failAt) == "group"

\* PRAGMAs, then BEGIN when txMode is 'all'. The first PRAGMA that fails
\* (failAt, 0 if none does) ends the PRAGMA block with a warning.
Configure(inv) ==
    /\ pc[inv] = "pragma"
    /\ \E failAt \in 0..Len(PragmasOf(local[inv])) :
         LET t == IF local[inv].txMode = "all" THEN beginTx("all", inv, "all", 0, 0)
                  ELSE TxState(inv)
             applied == IF failAt = 0 THEN Len(PragmasOf(local[inv])) ELSE failAt - 1
         IN  /\ SetTx(inv, t)
             /\ conn' = [conn EXCEPT ![inv].inTx = t.inTx, ![inv].pragmas = applied]
             /\ hist' = [hist EXCEPT ![inv].pragmaWarn = failAt > 0]
             /\ pc' = [pc EXCEPT ![inv] = AfterPragmas(failAt)]
    /\ gi' = [gi EXCEPT ![inv] = 1]
    /\ UNCHANGED <<objs, prov, nInv, local, rowsIn, ri, mapped, cols, chunks, ci, ei,
                   mem, out>>

\* Top of the group loop: skip a group without table, normalise the group
\* object in place, read the source rows, count them, register the KeySpec.
GroupStart(inv) ==
    /\ pc[inv] = "group"
    /\ IF gi[inv] > Len(RunCfg(inv).groups)
       THEN /\ pc' = [pc EXCEPT ![inv] = "close"]
            /\ UNCHANGED <<objs, gi, rowsIn, ri, mapped, byTable, keySpecs, hist>>
       ELSE IF RunCfg(inv).groups[gi[inv]].table = ""
       THEN /\ gi' = [gi EXCEPT ![inv] = @ + 1]
            /\ UNCHANGED <<objs, pc, rowsIn, ri, mapped, byTable, keySpecs, hist>>
       ELSE LET g0 == RunCfg(inv).groups[gi[inv]]
                g == [g0 EXCEPT !.conflict = IF @ = "" THEN "none" ELSE @]
                s == StateSlot(inv)
                ks == normKeySpec(g)
            IN  /\ objs' = [objs EXCEPT ![local[inv].obj].groups[gi[inv]] = g]
                /\ \E rows \in SourceArrays(g.source) :
                     /\ rowsIn' = [rowsIn EXCEPT ![inv] = rows]
                     /\ byTable' = [byTable EXCEPT ![s] =
                            SetFn(@, g.table,
                                  [PerOf(@, g.table) EXCEPT !.total = @ + Len(rows)])]
                     /\ hist' = [hist EXCEPT ![inv] =
                            SetGroupHist([@ EXCEPT !.nRead = @ + Len(rows)], gi[inv],
                                [NoGroupHist EXCEPT !.state = "running", !.n = Len(rows),
                                                    !.per0 = PerOf(byTable[s], g.table)])]
                /\ keySpecs' = [keySpecs EXCEPT ![s] =
                                   IF ks.enabled THEN SetFn(@, AliasOf(g), ks) ELSE @]
                /\ ri' = [ri EXCEPT ![inv] = 1]
                /\ mapped' = [mapped EXCEPT ![inv] = <<>>]
                /\ pc' = [pc EXCEPT ![inv] = "map"]
                /\ UNCHANGED gi
    /\ UNCHANGED <<prov, nInv, local, cols, chunks, ci, ei, totals, ctxMaps,
                   dbv, out, scopes>>

MapLoopOverEarly(inv) == ri[inv] > 1

MapLoopOverLate(inv) == ri[inv] > Len(rowsIn[inv]) + 1

\* for (let i = 0; i < rowsIn.length; i++): the loop ends after the last row.
MapLoopOver(inv) == ri[inv] > Len(rowsIn[inv])

\* One iteration of the mapping loop: mapRow on the next source row.
MapRowStep(inv) ==
    /\ pc[inv] = "map"
    /\ ri[inv] <= Len(rowsIn[inv])
    /\ LET g == RunCfg(inv).groups[gi[inv]]
           s == StateSlot(inv)
           src == rowsIn[inv][ri[inv]]
           res == mapRow(g, src, ctxMaps[s], keySpecs[s])
           seen == LookupsOf(g, gi[inv], src, ctxMaps[s], keySpecs[s])
           h1 == [hist[inv] EXCEPT !.lookups = @ \cup seen]
           gh == GroupHist(h1, gi[inv])
       IN  IF res.ok
           THEN /\ mapped' = [mapped EXCEPT ![inv] = Append(@, res.row)]
                /\ ri' = [ri EXCEPT ![inv] = @ + 1]
                /\ hist' = [hist EXCEPT ![inv] = h1]
                /\ UNCHANGED <<pc, totals, byTable, outcome>>
           ELSE /\ byTable' = [byTable EXCEPT ![s] =
                                  SetFn(@, g.table, CountError(PerOf(@, g.table)))]
                /\ totals' = [totals EXCEPT ![s] = CountError(@)]
                /\ LET h2 == SetGroupHist(h1, gi[inv], [gh EXCEPT !.mapFail = @ + 1])
                   IN  IF ~local[inv].continueOnError
                       THEN /\ pc' = [pc EXCEPT ![inv] = "failed"]
                            /\ outcome' = [outcome EXCEPT ![inv] = "error"]
                            /\ hist' = [hist EXCEPT ![inv] =
                                   [h2 EXCEPT !.err = "map",
                                              !.errScope = ActiveScope(scopes[inv])]]
                            /\ UNCHANGED <<ri, mapped>>
                       ELSE /\ ri' = [ri EXCEPT ![inv] = @ + 1]
                            /\ hist' = [hist EXCEPT ![inv] = h2]
                            /\ UNCHANGED <<pc, mapped, outcome>>
    /\ UNCHANGED <<objs, prov, nInv, local, gi, rowsIn, cols, chunks, ci, ei,
                   ctxMaps, keySpecs, dbv, summary, scopes>>

\* After the mapping loop: nothing mapped or no columns ends the group,
\* otherwise the column list and the batches are fixed.
MapDone(inv) ==
    /\ pc[inv] = "map"
    /\ MapLoopOver(inv)
    /\ LET g == RunCfg(inv).groups[gi[inv]]
           s == StateSlot(inv)
           ks == normKeySpec(g)
           gh == GroupHist(hist[inv], gi[inv])
           ended == SetGroupHist(hist[inv], gi[inv],
                        [gh EXCEPT !.state = "ended", !.per1 = PerOf(byTable[s], g.table)])
       IN  IF Len(mapped[inv]) = 0
           THEN /\ ctxMaps' = [ctxMaps EXCEPT ![s] =
                       IF ks.enabled /\ ks.selectMissing
                       THEN SetFn(@, AliasOf(g),
                                  [has |-> TRUE, map |-> <<>>, by |-> inv, gi |-> gi[inv]])
                       ELSE @]
                /\ gi' = [gi EXCEPT ![inv] = @ + 1]
                /\ pc' = [pc EXCEPT ![inv] = "group"]
                /\ hist' = [hist EXCEPT ![inv] = ended]
                /\ UNCHANGED <<cols, chunks, ci>>
           ELSE IF Len(ColsOf(g, mapped[inv])) = 0
           THEN /\ gi' = [gi EXCEPT ![inv] = @ + 1]
                /\ pc' = [pc EXCEPT ![inv] = "group"]
                /\ hist' = [hist EXCEPT ![inv] = ended]
                /\ UNCHANGED <<cols, chunks, ci, ctxMaps>>
           ELSE /\ cols' = [cols EXCEPT ![inv] = ColsOf(g, mapped[inv])]
                /\ chunks' = [chunks EXCEPT ![inv] = ChunksOf(local[inv], mapped[inv])]
                /\ ci' = [ci EXCEPT ![inv] = 1]
                /\ pc' = [pc EXCEPT ![inv] = "begin"]
                /\ UNCHANGED <<gi, ctxMaps, hist>>
    /\ UNCHANGED <<objs, prov, nInv, local, rowsIn, ri, mapped, ei, totals, byTable,
                   keySpecs, dbv, out, scopes>>

\* Top of the chunk loop: beginTx(txMode, db) for the next batch, or the end
\* of the loop.
BeginChunk(inv) ==
    /\ pc[inv] = "begin"
    /\ IF ci[inv] > Len(chunks[inv])
       THEN /\ pc' = [pc EXCEPT ![inv] = "publish"]
            /\ UNCHANGED <<conn, store, dirty, lock, scopes, hist>>
       ELSE LET mode == ChunkTxMode(local[inv])
                t == beginTx(mode, inv, mode, gi[inv], ci[inv])
                gh == GroupHist(hist[inv], gi[inv])
            IN  /\ pc' = [pc EXCEPT ![inv] = "prepare"]
                /\ SetTx(inv, t)
                /\ conn' = [conn EXCEPT ![inv].inTx = t.inTx]
                /\ hist' = [hist EXCEPT ![inv] =
                       SetGroupHist([@ EXCEPT !.baseStore = store], gi[inv],
                                    [gh EXCEPT !.begun = @ + 1])]
    /\ UNCHANGED <<objs, prov, nInv, local, gi, rowsIn, ri, mapped, cols, chunks, ci, ei,
                   mem, out>>

\* buildInsertSQL and db.prepare, inside the try of the batch.
Prepare(inv) ==
    /\ pc[inv] = "prepare"
    /\ LET sql == buildInsertSQL(RunCfg(inv).groups[gi[inv]], cols[inv])
       IN  IF ~sql.ok
           THEN /\ pc' = [pc EXCEPT ![inv] = "rollback"]
                /\ hist' = [hist EXCEPT ![inv].err = "ident", ![inv].ident = TRUE]
                /\ UNCHANGED <<conn, ei>>
           ELSE IF ~StorePrepareOk(sql)
           THEN /\ pc' = [pc EXCEPT ![inv] = "rollback"]
                /\ hist' = [hist EXCEPT ![inv].err = "prepare"]
                /\ UNCHANGED <<conn, ei>>
           ELSE /\ pc' = [pc EXCEPT ![inv] = "exec"]
                /\ conn' = [conn EXCEPT ![inv].stmts = @ + 1]
                /\ ei' = [ei EXCEPT ![inv] = 1]
                /\ UNCHANGED hist
    /\ UNCHANGED <<objs, prov, nInv, local, gi, rowsIn, ri, mapped, cols, chunks, ci,
                   mem, store, dirty, lock, out, scopes>>

\* stmt.run for the next row of the batch; the counters follow the outcome.
ExecRow(inv) ==
    /\ pc[inv] = "exec"
    /\ ei[inv] <= Len(chunks[inv][ci[inv]])
    /\ LET g == RunCfg(inv).groups[gi[inv]]
           s == StateSlot(inv)
           sql == buildInsertSQL(g, cols[inv])
           r == chunks[inv][ci[inv]][ei[inv]]
           busy == lock \notin {0, inv}
           res == StoreRun(View(inv)[g.table], sql, ParamsOf(cols[inv], r))
           gh == GroupHist(hist[inv], gi[inv])
       IN  IF ~busy /\ res.ok
           THEN /\ IF conn[inv].inTx
                   THEN /\ dirty' = [View(inv) EXCEPT ![g.table] = res.rows]
                        /\ lock' = inv
                        /\ UNCHANGED store
                   ELSE /\ store' = [store EXCEPT ![g.table] = res.rows]
                        /\ dirty' = store'
                        /\ UNCHANGED lock
                /\ byTable' = [byTable EXCEPT ![s] =
                       SetFn(@, g.table, CountSuccess(PerOf(@, g.table), g.conflict))]
                /\ totals' = [totals EXCEPT ![s] = CountSuccess(@, g.conflict)]
                /\ ei' = [ei EXCEPT ![inv] = @ + 1]
                /\ hist' = [hist EXCEPT ![inv] =
                       SetGroupHist(@, gi[inv], [gh EXCEPT !.execOk = @ + 1])]
                /\ UNCHANGED pc
           ELSE /\ byTable' = [byTable EXCEPT ![s] =
                       SetFn(@, g.table, CountError(PerOf(@, g.table)))]
                /\ totals' = [totals EXCEPT ![s] = CountError(@)]
                /\ UNCHANGED <<store, dirty, lock>>
                /\ LET h1 == SetGroupHist(hist[inv], gi[inv],
                                          [gh EXCEPT !.execFail = @ + 1])
                   IN  IF ~local[inv].continueOnError
                       THEN /\ pc' = [pc EXCEPT ![inv] = "rollback"]
                            /\ hist' = [hist EXCEPT ![inv] =
                                   [h1 EXCEPT !.err = "exec", !.rowErr = TRUE,
                                              !.errStore = store,
                                              !.errScope = ActiveScope(scopes[inv])]]
                            /\ UNCHANGED ei
                       ELSE /\ ei' = [ei EXCEPT ![inv] = @ + 1]
                            /\ hist' = [hist EXCEPT ![inv] = h1]
                            /\ UNCHANGED pc
    /\ UNCHANGED <<objs, prov, nInv, local, gi, rowsIn, ri, mapped, cols, chunks, ci,
                   ctxMaps, keySpecs, conn, out, scopes>>

\* End of the batch: the statement is finalized and the scope committed.
CommitChunk(inv) ==
    /\ pc[inv] = "exec"
    /\ ei[inv] > Len(chunks[inv][ci[inv]])
    /\ LET t == commitTx(ChunkTxMode(local[inv]), inv)
           gh == GroupHist(hist[inv], gi[inv])
       IN  /\ SetTx(inv, t)
           /\ conn' = [conn EXCEPT ![inv].inTx = t.inTx, ![inv].stmts = @ - 1]
           /\ hist' = [hist EXCEPT ![inv] =
                  SetGroupHist(@, gi[inv], [gh EXCEPT !.committed = @ + 1])]
    /\ ci' = [ci EXCEPT ![inv] = @ + 1]
    /\ pc' = [pc EXCEPT ![inv] = "begin"]
    /\ UNCHANGED <<objs, prov, nInv, local, gi, rowsIn, ri, mapped, cols, chunks, ei,
                   mem, out>>

\* catch of the batch: rollbackTx, then rethrow unless continueOnError.
Rollback(inv) ==
    /\ pc[inv] = "rollback"
    /\ LET t == rollbackTx(ChunkTxMode(local[inv]), inv)
           gh == GroupHist(hist[inv], gi[inv])
       IN  /\ SetTx(inv, t)
           /\ conn' = [conn EXCEPT ![inv].inTx = t.inTx]
           /\ hist' = [hist EXCEPT ![inv] =
                  SetGroupHist(@, gi[inv], [gh EXCEPT !.rolledBack = @ + 1])]
    /\ IF ~local[inv].continueOnError
       THEN /\ pc' = [pc EXCEPT ![inv] = "failed"]
            /\ outcome' = [outcome EXCEPT ![inv] = "error"]
            /\ UNCHANGED ci
       ELSE /\ pc' = [pc EXCEPT ![inv] = "begin"]
            /\ ci' = [ci EXCEPT ![inv] = @ + 1]
            /\ UNCHANGED outcome
    /\ UNCHANGED <<objs, prov, nInv, local, gi, rowsIn, ri, mapped, cols, chunks, ei,
                   mem, summary>>

PublishEntryKeepOld(old, map, inv, pos) ==
    IF old.has /\ map = <<>> THEN old
    ELSE [has |-> TRUE, map |-> map, by |-> inv, gi |-> pos]

\* ctxMaps[alias] = { map }: the entry replaces whatever the alias held.
PublishEntry(old, map, inv, pos) ==
    [has |-> TRUE, map |-> map, by |-> inv, gi |-> pos]

\* After the chunk loop: the key map of the group is re-selected from the
\* store and stored under the alias.
Publish(inv) ==
    /\ pc[inv] = "publish"
    /\ LET g == RunCfg(inv).groups[gi[inv]]
           s == StateSlot(inv)
           ks == normKeySpec(g)
           keyed == \/ ks.mode = "byColumns" /\ Len(ks.columns) > 0
                    \/ ks.mode = "byTemplate" /\ ks.template # ""
           keys == IF keyed
                   THEN [i \in 1..Len(mapped[inv]) |-> keyOfMappedRow(mapped[inv][i], ks)]
                   ELSE <<>>
           sel == IF ks.mode = "byColumns" /\ Len(ks.columns) > 0
                  THEN selectIdsByKeys(View(inv)[g.table], g, ks, keys)
                  ELSE [ok |-> TRUE, map |-> <<>>]
           gh == GroupHist(hist[inv], gi[inv])
           ended == SetGroupHist(hist[inv], gi[inv],
                        [gh EXCEPT !.state = "ended", !.per1 = PerOf(byTable[s], g.table)])
       IN  IF ks.enabled /\ ~sel.ok
           THEN /\ pc' = [pc EXCEPT ![inv] = "failed"]
                /\ outcome' = [outcome EXCEPT ![inv] = "error"]
                /\ hist' = [hist EXCEPT ![inv].err = "select"]
                /\ UNCHANGED <<gi, ctxMaps>>
           ELSE /\ ctxMaps' = [ctxMaps EXCEPT ![s] =
                       IF ks.enabled
                       THEN SetFn(@, AliasOf(g),
                                  PublishEntry(Lookup(@, AliasOf(g), NoCtx),
                                               sel.map, inv, gi[inv]))
                       ELSE @]
                /\ gi' = [gi EXCEPT ![inv] = @ + 1]
                /\ pc' = [pc EXCEPT ![inv] = "group"]
                /\ hist' = [hist EXCEPT ![inv] = ended]
                /\ UNCHANGED outcome
    /\ UNCHANGED <<objs, prov, nInv, local, rowsIn, ri, mapped, cols, chunks, ci, ei,
                   totals, byTable, keySpecs, dbv, summary, scopes>>

\* After the group loop: db.close(), the summary is built and sent, done().
\* Closing a connection with an open transaction discards the transaction.
Close(inv) ==
    /\ pc[inv] = "close"
    /\ conn' = [conn EXCEPT ![inv].open = FALSE, ![inv].inTx = FALSE]
    /\ lock' = IF lock = inv THEN 0 ELSE lock
    /\ dirty' = IF lock = inv THEN store ELSE dirty
    /\ summary' = [summary EXCEPT ![inv] =
                      [ok |-> totals[StateSlot(inv)].errors = 0,
                       counts |-> totals[StateSlot(inv)],
                       tables |-> byTable[StateSlot(inv)]]]
    /\ outcome' = [outcome EXCEPT ![inv] = "summary"]
    /\ pc' = [pc EXCEPT ![inv] = "done"]
    /\ UNCHANGED <<objs, prov, nInv, local, gi, rowsIn, ri, mapped, cols, chunks, ci, ei,
                   mem, store, scopes, hist>>

Next ==
    \E inv \in Invs :
        \/ Input(inv)
        \/ Configure(inv)
        \/ GroupStart(inv)
        \/ MapRowStep(inv)
        \/ MapDone(inv)
        \/ BeginChunk(inv)
        \/ Prepare(inv)
        \/ ExecRow(inv)
        \/ CommitChunk(inv)
        \/ Rollback(inv)
        \/ Publish(inv)
        \/ Close(inv)

Spec == Init /\ [][Next]_vars

\* ---------------------------------------------------------------- config file
\* loadLockedConfigIfNeeded(): lockedCfg is null unless the node uses a config
\* file and is locked to it; otherwise it is the object parsed from the file,
\* or null when the file does not exist.
LoadInto(n) ==
    IF ~nodes[n].useConfigFile \/ ~nodes[n].lockToFile \/ ~file.exists
    THEN [objs |-> objs, lockedCfg |-> 0]
    ELSE [objs |-> Append(objs, file.cfg), lockedCfg |-> Len(objs) + 1]

\* Constructor, first step: loadLockedConfigIfNeeded().
LoadLockedConfig(n) ==
    /\ nodes[n].st = "new"
    /\ objs' = LoadInto(n).objs
    /\ nodes' = [nodes EXCEPT ![n].lockedCfg = LoadInto(n).lockedCfg,
                               ![n].st = "loaded"]
    /\ UNCHANGED <<file, watchers, nodeOf, nInv, ctl, mem, dbv, out, scopes, hist>>

\* Constructor, second step (.finally): startWatchingIfNeeded(). The first
\* node to watch the path creates the watcher, whose callback reloads that
\* node; a later node only increments the count. fs.watch throws when the
\* file does not exist, which is ignored.
StartWatching(n) ==
    /\ nodes[n].st = "loaded"
    /\ nodes' = [nodes EXCEPT ![n].st = "ready",
                               ![n].watching = /\ nodes[n].useConfigFile
                                               /\ nodes[n].watchFile
                                               /\ file.exists]
    /\ watchers' =
         IF ~nodes[n].useConfigFile \/ ~nodes[n].watchFile \/ ~file.exists
         THEN watchers
         ELSE IF ~watchers.exists
         THEN [exists |-> TRUE, count |-> 1, owner |-> n, pending |-> 0]
         ELSE [watchers EXCEPT !.count = @ + 1]
    /\ UNCHANGED <<objs, file, nodeOf, nInv, ctl, mem, dbv, out, scopes, hist>>

\* The config file is rewritten with another configuration; a watcher on the
\* path gets a 'change' event.
FileChange ==
    /\ file.exists
    /\ file.ver < MaxFileChanges
    /\ \E c \in FileConfigs \ {file.cfg} :
         file' = [file EXCEPT !.cfg = c, !.ver = @ + 1]
    /\ watchers' = IF watchers.exists THEN [watchers EXCEPT !.pending = @ + 1]
                   ELSE watchers
    /\ nodes' = [n \in DOMAIN nodes |->
                    IF nodes[n].st = "ready"
                    THEN [nodes[n] EXCEPT !.sawChange = TRUE] ELSE nodes[n]]
    /\ UNCHANGED <<objs, nodeOf, nInv, ctl, mem, dbv, out, scopes, hist>>

\* The watcher's callback: loadLockedConfigIfNeeded() of the node that
\* created the watcher.
WatchEvent ==
    /\ watchers.exists
    /\ watchers.pending > 0
    /\ watchers' = [watchers EXCEPT !.pending = @ - 1]
    /\ objs' = LoadInto(watchers.owner).objs
    /\ nodes' = [nodes EXCEPT ![watchers.owner].lockedCfg =
                                  LoadInto(watchers.owner).lockedCfg]
    /\ UNCHANGED <<file, nodeOf, nInv, ctl, mem, dbv, out, scopes, hist>>

\* node.on('close', stopWatching): the count of the path's watcher is
\* decremented and the watcher closed when it reaches 0.
NodeClose(n) ==
    /\ nodes[n].st = "ready"
    /\ nodes' = [nodes EXCEPT ![n].st = "closed"]
    /\ watchers' =
         IF ~nodes[n].useConfigFile \/ ~watchers.exists THEN watchers
         ELSE IF watchers.count - 1 <= 0 THEN NoWatcher
         ELSE [watchers EXCEPT !.count = @ - 1]
    /\ UNCHANGED <<objs, file, nodeOf, nInv, ctl, mem, dbv, out, scopes, hist>>

NextWatch ==
    \/ Next
    \/ \E n \in WatchNodes :
          \/ LoadLockedConfig(n)
          \/ StartWatching(n)
          \/ NodeClose(n)
    \/ FileChange
    \/ WatchEvent

\* A node being constructed with 'Use config file' and 'Watch file'.
WatchNode(lockToFile) ==
    [PlainNode EXCEPT !.useConfigFile = TRUE, !.watchFile = TRUE,
                      !.lockToFile = lockToFile, !.st = "new"]

\* Two nodes deployed with 'Use config file' and 'Watch file' on the same
\* path, the first locked to the file, each receiving one message.
InitWatch ==
    /\ objs = [n \in WatchNodes |-> NodeCfg]
    /\ nodes \in {<<WatchNode(TRUE), WatchNode(l)>> : l \in BOOLEAN}
    /\ file = [exists |-> TRUE, cfg |-> FileConfig(FALSE), ver |-> 0]
    /\ watchers = NoWatcher
    /\ nodeOf = [i \in Invs |-> IF i \in WatchNodes THEN i ELSE 1]
    /\ InitHandler(Cardinality(WatchNodes))

SpecWatch == InitWatch /\ [][NextWatch]_vars

\* The nodes of a flow that name the same config path.
PathNodes == {1, 2, 3}

\* The constructor, the watcher and the close handler of the nodes alone.
NextPath ==
    \/ \E n \in PathNodes :
          \/ LoadLockedConfig(n)
          \/ StartWatching(n)
          \/ NodeClose(n)
    \/ FileChange
    \/ WatchEvent

\* Three nodes deployed with the same config path and any combination of
\* 'Use config file', 'Lock to file' and 'Watch file'; no message arrives.
InitPath ==
    /\ objs = [n \in PathNodes |-> NodeCfg]
    /\ nodes \in [PathNodes ->
                    {[PlainNode EXCEPT !.useConfigFile = u, !.lockToFile = l,
                                       !.watchFile = w, !.st = "new"]
                     : u \in BOOLEAN, l \in BOOLEAN, w \in BOOLEAN}]
    /\ file = [exists |-> TRUE, cfg |-> FileConfig(FALSE), ver |-> 0]
    /\ watchers = NoWatcher
    /\ nodeOf = [i \in Invs |-> 1]
    /\ InitHandler(0)

SpecPath == InitPath /\ [][NextPath]_vars

\* Every continuation of the handler is run by the event loop once the
\* operation it awaits has completed.
InitLive == InitWith(LiveConfigs, 1)

SpecLive == InitLive /\ [][Next]_vars /\ WF_vars(Next)

\* Two messages arrive at the node and their handlers overlap.
InitConc == InitWith(ConcConfigs, 2)

SpecConc == InitConc /\ [][Next]_vars

\* ---------------------------------------------------------------- properties
RECURSIVE Flatten(_)
Flatten(ss) == IF Len(ss) = 0 THEN <<>> ELSE Head(ss) \o Flatten(Tail(ss))

Ended(inv) == pc[inv] \in {"done", "failed"}

\* The groups of the list that the loop does not skip.
RealGroups == {i \in 1..Len(cfg.groups) : cfg.groups[i].table # ""}

\* Position i holds a group whose mapping in effect has a strict lookup on an
\* alias that no earlier group publishes and a later group does.
ReversedStrict(i) ==
    LET g == cfg.groups[i]
    IN  /\ ~g.autoMap
        /\ \E k \in 1..Len(g.mapping) :
             LET m == g.mapping[k]
             IN  /\ m.source = "lookup" /\ m.strict /\ m.col # ""
                 /\ \E j \in (i + 1)..Len(cfg.groups) : AliasOf(cfg.groups[j]) = m.fromGroup
                 /\ \A j \in 1..(i - 1) : AliasOf(cfg.groups[j]) # m.fromGroup

\* C1: every transaction scope a run begins ends Committed or RolledBack: none
\* is still Active when the invocation has reported its result (the connection
\* closed or the error propagated), and a txMode=all run without errors ends
\* with its whole-run scope Committed.
C1_ScopesSettled ==
    \A inv \in Invs :
        Ended(inv) =>
            /\ \A i \in 1..Len(scopes[inv]) : scopes[inv][i].st # "Active"
            /\ (pc[inv] = "done" /\ local[inv].txMode = "all"
                /\ totals[StateSlot(inv)].errors = 0)
               => (Len(scopes[inv]) >= 1 /\ scopes[inv][1].st = "Committed")

\* C2: with continueOnError=false, a mapping, strict-lookup or row execution
\* error rolls back the scope that was active when it was thrown and fails
\* the run, for every txMode.
C2_ErrorRollsBackActiveScope ==
    \A inv \in Invs :
        (hist[inv].err \in {"map", "exec"} /\ ~local[inv].continueOnError
         /\ pc[inv] = "failed")
        => /\ outcome[inv] = "error"
           /\ hist[inv].errScope > 0
              => scopes[inv][hist[inv].errScope].st = "RolledBack"

\* C3: a lookup made while the rows of the group at position i are mapped
\* reads only an entry of ctxMaps stored by a group at a position j < i.
C3_LookupsSeeEarlierGroupsOnly ==
    \A inv \in Invs : \A l \in hist[inv].lookups : l.has => l.pgi < l.gi

C3_Witness ==
    \E inv \in Invs : \E l \in hist[inv].lookups :
        l.has /\ l.got # Null /\ l.pgi = 1 /\ l.gi = 2

\* C4: a child group with a strict lookup declared before its parent group
\* maps no row and inserts no row; every child row it tries is an error.
C4_ReversedStrictMapsNothing ==
    \A inv \in Invs : \A i \in 1..Len(cfg.groups) :
        ReversedStrict(i) =>
            LET gh == GroupHist(hist[inv], i)
            IN  /\ gi[inv] = i => mapped[inv] = <<>>
                /\ gh.begun = 0 /\ gh.execOk = 0
                /\ store[cfg.groups[i].table] = {}
                /\ gh.state = "ended" => gh.mapFail = gh.n
                /\ (gh.state = "running" /\ pc[inv] = "map") => gh.mapFail = ri[inv] - 1

C4_Witness ==
    \E i \in 1..Len(cfg.groups) :
        /\ ReversedStrict(i)
        /\ GroupHist(hist[1], i).state = "ended"
        /\ GroupHist(hist[1], i).n = MaxRows
        /\ GroupHist(hist[1], i).mapFail = MaxRows
        /\ pc[1] = "done"

\* C5: in a child group declared after a parent group with a byColumns KeySpec,
\* a lookup whose key value is the natural key of a row of the parent table
\* (a row the parent group wrote in this run) gets exactly that row's
\* surrogate id, for every txMode.
C5_LookupGetsStoreId ==
    \A inv \in Invs : \A l \in hist[inv].lookups :
        \A j \in 1..(l.gi - 1) :
            LET p == cfg.groups[j]
                ks == normKeySpec(p)
            IN  (AliasOf(p) = l.alias /\ ks.enabled /\ ks.mode = "byColumns"
                 /\ Len(ks.columns) > 0 /\ ~Ended(inv))
                => \A r \in View(inv)[p.table] :
                       keyOfMappedRow(r.d, ks) = composeKeyWithSpec(ks, l.val)
                       => l.got = IdVal(r.id)

\* C6: under perTable, chunk or off with continueOnError=false, a failed row
\* execution rolls back only the scope active at that moment: what was
\* committed before the failing batch stays persisted, and no later batch and
\* no later group is begun.
C6_FailureKeepsEarlierCommits ==
    \A inv \in Invs :
        (hist[inv].rowErr /\ local[inv].txMode # "all") =>
            /\ pc[inv] \in {"rollback", "failed"}
            /\ \A j \in (gi[inv] + 1)..Len(cfg.groups) :
                   GroupHist(hist[inv], j).state = "new"
            /\ GroupHist(hist[inv], gi[inv]).begun = ci[inv]
            /\ pc[inv] = "failed" =>
                 /\ store = IF local[inv].txMode = "off" THEN hist[inv].errStore
                            ELSE hist[inv].baseStore
                 /\ ~conn[inv].inTx /\ lock # inv
                 /\ \A i \in 1..Len(scopes[inv]) :
                        scopes[inv][i].st =
                            IF i = Len(scopes[inv]) THEN "RolledBack" ELSE "Committed"

C6_Witness ==
    /\ hist[1].rowErr /\ pc[1] = "failed" /\ local[1].txMode = "chunk"
    /\ store["Departments"] # {}
    /\ Len(scopes[1]) >= 2

RECURSIVE SumOver(_, _)
SumOver(S, f) ==
    IF S = {} THEN 0
    ELSE LET x == CHOOSE y \in S : TRUE IN f[x] + SumOver(S \ {x}, f)

\* C7: with continueOnError=true, a group of n source rows of which k fail to
\* map and the others all execute successfully adds k to the error counter of
\* its table and n-k to inserted+updated, mapping and row errors never end the
\* run, and a run that completes has been through every group of the list.
C7_MappingErrorsContained ==
    \A inv \in Invs :
        local[inv].continueOnError =>
            /\ \A i \in DOMAIN hist[inv].groups :
                   LET gh == hist[inv].groups[i]
                   IN  (gh.state = "ended" /\ gh.execFail = 0
                        /\ gh.execOk = gh.n - gh.mapFail)
                       => /\ gh.per1.errors - gh.per0.errors = gh.mapFail
                          /\ (gh.per1.inserted + gh.per1.updated)
                             - (gh.per0.inserted + gh.per0.updated) = gh.n - gh.mapFail
            /\ ~(pc[inv] = "failed" /\ hist[inv].err \in {"map", "exec"})
            /\ pc[inv] = "done" =>
                   \A j \in RealGroups : GroupHist(hist[inv], j).state = "ended"

C7_Witness ==
    /\ local[1].continueOnError
    /\ pc[1] = "done"
    /\ Len(cfg.groups) = 3
    /\ \E i \in DOMAIN hist[1].groups :
         LET gh == hist[1].groups[i]
         IN  /\ i < Len(cfg.groups)
             /\ gh.state = "ended" /\ gh.n = 2 /\ gh.mapFail = 1 /\ gh.execOk = 1
             /\ GroupHist(hist[1], i + 1).state = "ended"

\* C8: an InvalidIdentifier error always aborts the run: no run in which qid
\* threw completes with a RunSummary, whatever continueOnError is.
C8_InvalidIdentifierAborts ==
    \A inv \in Invs : hist[inv].ident => outcome[inv] # "summary"

CeilDiv(m, n) == (m + n - 1) \div n

\* C9: under txMode=chunk with chunkSize N a group of M mapped rows runs in
\* ceil(M/N) batches, all but possibly the last of N rows, together the mapped
\* rows once each in order, each batch in a scope of its own; under the other
\* modes the group runs as one batch.
C9_ChunkPartition ==
    \A inv \in Invs :
        pc[inv] \in {"begin", "prepare", "exec", "rollback", "publish"} =>
            LET M == Len(mapped[inv])
                N == local[inv].chunkSize
                ch == chunks[inv]
                gh == GroupHist(hist[inv], gi[inv])
                mine == {i \in 1..Len(scopes[inv]) : scopes[inv][i].gi = gi[inv]}
            IN  /\ Flatten(ch) = mapped[inv]
                /\ IF local[inv].txMode = "chunk"
                   THEN /\ Len(ch) = CeilDiv(M, N)
                        /\ \A c \in 1..(Len(ch) - 1) : Len(ch[c]) = N
                        /\ Len(ch[Len(ch)]) \in 1..N
                        /\ Cardinality(mine) = gh.begun
                        /\ pc[inv] = "publish" =>
                             /\ gh.begun = CeilDiv(M, N)
                             /\ \A i \in mine : scopes[inv][i].st # "Active"
                   ELSE Len(ch) = 1
                /\ pc[inv] = "publish" => gh.committed + gh.rolledBack = Len(ch)

C9_Witness ==
    /\ pc[1] = "publish" /\ local[1].txMode = "chunk"
    /\ Len(mapped[1]) = MaxRows /\ Len(chunks[1]) = MaxRows
    /\ GroupHist(hist[1], gi[1]).committed = MaxRows

RowEvents(h) ==
    SumOver(DOMAIN h.groups,
            [i \in DOMAIN h.groups |->
                h.groups[i].mapFail + h.groups[i].execOk + h.groups[i].execFail])

\* C10: overlapping invocations share no ContextMap, KeySpec or counter state:
\* a lookup reads only a map its own invocation stored, with the KeySpec its
\* own invocation registered, and a summary counts only the rows of its own
\* invocation.
C10_InvocationsIsolated ==
    \A inv \in Invs :
        /\ \A l \in hist[inv].lookups : l.has => l.by = inv
        /\ outcome[inv] = "summary" =>
             LET sm == summary[inv]
             IN  /\ SumOver(DOMAIN sm.tables,
                            [t \in DOMAIN sm.tables |-> sm.tables[t].total])
                    = hist[inv].nRead
                 /\ sm.counts.inserted + sm.counts.updated + sm.counts.errors
                    = RowEvents(hist[inv])

C10_Witness ==
    /\ outcome[1] = "summary" /\ summary[1].counts.errors = 0
    /\ hist[1].nRead = 2
    /\ pc[2] = "publish" /\ gi[2] = 2
    /\ \E l \in hist[1].lookups : l.has /\ l.by = 1 /\ l.got # Null
    /\ \E l \in hist[2].lookups : l.has /\ l.by = 2 /\ l.got # Null

CounterNames == {"inserted", "updated", "errors", "skipped"}

\* C14: each row execution changes exactly one counter of its table and the
\* same counter of the run totals, by one: updated for a success under
\* replace or upsert, inserted for a success under none or ignore (also when
\* the store ignored the row), errors for a failure.
C14_OneCounterPerRow ==
    [][\A inv \in Invs :
         (/\ pc[inv] = "exec"
          /\ ei[inv] <= Len(chunks[inv][ci[inv]])
          /\ (ei'[inv] # ei[inv] \/ pc'[inv] # pc[inv]))
         => LET g == cfg.groups[gi[inv]]
                s == StateSlot(inv)
                per0 == PerOf(byTable[s], g.table)
                per1 == PerOf(byTable'[s], g.table)
                okRun == GroupHist(hist'[inv], gi[inv]).execOk
                         = GroupHist(hist[inv], gi[inv]).execOk + 1
                name == IF ~okRun THEN "errors"
                        ELSE IF g.conflict \in {"replace", "upsert"} THEN "updated"
                        ELSE "inserted"
            IN  /\ \A c \in CounterNames :
                      /\ per1[c] = per0[c] + (IF c = name THEN 1 ELSE 0)
                      /\ totals'[s][c] = totals[s][c] + (IF c = name THEN 1 ELSE 0)
                /\ per1.total = per0.total
                /\ \A t \in DOMAIN byTable[s] \ {g.table} : byTable'[s][t] = byTable[s][t]
    ]_vars

C14_Witness ==
    /\ pc[1] = "publish" /\ gi[1] = 1
    /\ cfg.groups[1].table = "Departments" /\ cfg.groups[1].conflict = "ignore"
    /\ "Departments" \in DOMAIN byTable[1]
    /\ byTable[1]["Departments"].inserted = 2 /\ totals[1].inserted = 2
    /\ Cardinality(View(1)["Departments"]) = 1

\* C19: within a group every source row is mapped before any row of the group
\* is executed, so with continueOnError=false a mapping failure ends the run
\* with an error before any statement of that group has run, under every
\* txMode.
C19_MapBeforeExec ==
    \A inv \in Invs :
        LET gh == GroupHist(hist[inv], gi[inv])
        IN  /\ pc[inv] \in {"begin", "prepare", "exec", "rollback", "publish"}
               => /\ ri[inv] > Len(rowsIn[inv])
                  /\ Len(mapped[inv]) + gh.mapFail = gh.n
            /\ pc[inv] = "map" => gh.begun = 0 /\ gh.execOk = 0 /\ gh.execFail = 0
            /\ (pc[inv] = "failed" /\ hist[inv].err = "map")
               => /\ ~local[inv].continueOnError
                  /\ outcome[inv] = "error"
                  /\ gh.begun = 0 /\ gh.execOk = 0 /\ gh.execFail = 0

C19_Witness ==
    /\ pc[1] = "failed" /\ hist[1].err = "map"
    /\ local[1].txMode = "perTable"
    /\ gi[1] = 2 /\ Len(rowsIn[1]) = 2 /\ Len(mapped[1]) = 1
    /\ GroupHist(hist[1], 2).mapFail = 1
    /\ store["Employees"] = {} /\ store["Departments"] # {}

\* C20: a run never writes to its RunConfig or to a group object of it:
\* conflict, upsertKeys and updateColumns of every group stay as configured.
C20_ConfigNeverWritten ==
    [][cfg' = cfg]_vars

\* C12: a group with conflict=upsert always runs an INSERT with an ON CONFLICT
\* clause on its key columns (upsertKeys, defaulted from the KeySpec columns
\* when empty): DO UPDATE SET when updateColumns is non-empty, DO NOTHING
\* otherwise.
C12_UpsertHasConflictClause ==
    \A inv \in Invs :
        (pc[inv] = "exec" /\ cfg.groups[gi[inv]].conflict = "upsert")
        => LET g == cfg.groups[gi[inv]]
               ks == normKeySpec(g)
               sql == buildInsertSQL(g, cols[inv])
           IN  /\ sql.onConflict = (IF Len(g.updateColumns) > 0 THEN "update"
                                    ELSE "nothing")
               /\ sql.keys = (IF Len(g.upsertKeys) > 0 THEN g.upsertKeys
                              ELSE ks.columns)
               /\ Len(sql.keys) > 0

\* C15: for a group with a byColumns KeySpec, the key derived in memory from
\* a mapped row equals the key the SQL expression computes for that row as it
\* is persisted, so the re-select finds the row under the in-memory key.
C15_KeyDerivationConsistent ==
    \A inv \in Invs :
        pc[inv] = "publish" =>
            LET g == cfg.groups[gi[inv]]
                ks == normKeySpec(g)
                persisted(m) == [c \in Columns(g.table) |->
                                    IF c \in DOMAIN ParamsOf(cols[inv], m)
                                    THEN ParamsOf(cols[inv], m)[c] ELSE Null]
            IN  (ks.enabled /\ ks.mode = "byColumns" /\ Len(ks.columns) > 0)
                => \A i \in 1..Len(mapped[inv]) :
                     \A r \in View(inv)[g.table] :
                        r.d = persisted(mapped[inv][i])
                        => /\ SqlKeyMatches(r, ks, keyOfMappedRow(mapped[inv][i], ks))
                           /\ selectIdsByKeys(View(inv)[g.table], g, ks,
                                  <<keyOfMappedRow(mapped[inv][i], ks)>>).map
                              = (keyOfMappedRow(mapped[inv][i], ks) :> r.id)

\* The rows of an upsert group's table that a finished run sent.
RanUpsertOn(inv, i) ==
    /\ outcome[inv] = "summary" /\ summary[inv].ok
    /\ cfg.groups[i].conflict = "upsert"
    /\ GroupHist(hist[inv], i).state = "ended"
    /\ GroupHist(hist[inv], i).execOk >= 1

\* C13: when two invocations have run the same logical row under
\* conflict=upsert with a stable unique key, the store holds exactly one row
\* with that key, the second invocation counted it as updated and neither
\* counted it as inserted.
C13_UpsertIdempotent ==
    \A i \in DOMAIN cfg.groups :
        (RanUpsertOn(1, i) /\ RanUpsertOn(2, i))
        => LET t == cfg.groups[i].table
           IN  /\ Cardinality({r \in store[t] : r.d.code = Str("ENG")}) = 1
               /\ summary[1].tables[t].inserted = 0
               /\ summary[2].tables[t].inserted = 0
               /\ summary[2].tables[t].updated >= 1

\* C11: every invocation ends with exactly one terminal result: the summary
\* is sent and done() called, or one error is passed to done(err); never both,
\* never neither, and no summary is emitted once an error is propagated.
C11_OneTerminalResult ==
    /\ [](\A inv \in Invs :
            /\ pc[inv] = "done" <=> outcome[inv] = "summary"
            /\ pc[inv] = "failed" <=> outcome[inv] = "error"
            /\ outcome[inv] # "summary" => summary[inv] = NoSummary)
    /\ [][\A inv \in Invs :
            outcome[inv] # "none"
            => outcome'[inv] = outcome[inv] /\ summary'[inv] = summary[inv]]_vars
    /\ \A inv \in Invs : (pc[inv] # "idle") ~> (outcome[inv] \in {"summary", "error"})

C11_Witness ==
    /\ outcome[1] = "error" /\ hist[1].err = "exec"
    /\ summary[1] = NoSummary
    /\ totals[1].updated >= 1 /\ totals[1].errors = 1

RowFailures(h) ==
    SumOver(DOMAIN h.groups,
            [i \in DOMAIN h.groups |-> h.groups[i].mapFail + h.groups[i].execFail])

\* C17: a failing PRAGMA statement is never fatal: the run goes on to every
\* group, no counter changes, and the summary's ok stays true unless a row
\* failed.
C17_PragmaFailureNotFatal ==
    \A inv \in Invs :
        hist[inv].pragmaWarn =>
            /\ pc[inv] \notin {"idle", "pragma"}
            /\ pc[inv] = "failed" => hist[inv].err \in {"map", "exec", "prepare", "ident", "select"}
            /\ (pc[inv] = "group" /\ gi[inv] = 1)
               => totals[StateSlot(inv)] = ZeroTotals /\ byTable[StateSlot(inv)] = <<>>
            /\ pc[inv] = "done"
               => \A j \in RealGroups : GroupHist(hist[inv], j).state = "ended"
            /\ outcome[inv] = "summary"
               => /\ summary[inv].ok <=> RowFailures(hist[inv]) = 0
                  /\ summary[inv].counts.errors = RowFailures(hist[inv])

C17_Witness ==
    /\ hist[1].pragmaWarn /\ conn[1].pragmas = 0
    /\ outcome[1] = "summary" /\ summary[1].ok
    /\ summary[1].counts.inserted = 2
    /\ store["Departments"] # {} /\ store["Employees"] # {}

\* The last group before position pos that uses the alias, 0 if none.
LastWithAlias(alias, pos) ==
    LET S == {j \in 1..(pos - 1) : j \in DOMAIN cfg.groups
                                   /\ cfg.groups[j].table # ""
                                   /\ AliasOf(cfg.groups[j]) = alias}
    IN  IF S = {} THEN 0 ELSE SetMax(S)

C18_WatchedFileReloaded ==
    \A n \in DOMAIN nodes :
        (/\ nodes[n].useConfigFile /\ nodes[n].watchFile
         /\ nodes[n].st = "ready" /\ nodes[n].sawChange
         /\ watchers.pending = 0)
        => objs[RunObj(n)] = file.cfg

\* C21: a run that ends with a summary whose ok is true has executed every
\* source row of every group with a table successfully and committed it: no
\* batch was rolled back, every batch begun was committed, and no transaction
\* scope of the run is left uncommitted.
C21_OkMeansAllRowsCommitted ==
    \A inv \in Invs :
        (pc[inv] = "done" /\ summary[inv].ok) =>
            /\ \A i \in 1..Len(RunCfg(inv).groups) :
                   RunCfg(inv).groups[i].table # "" =>
                       LET gh == GroupHist(hist[inv], i)
                       IN  /\ gh.state = "ended"
                           /\ gh.execOk = gh.n
                           /\ gh.rolledBack = 0
                           /\ gh.committed = gh.begun
            /\ \A k \in 1..Len(scopes[inv]) : scopes[inv][k].st = "Committed"

\* The sum of one counter over the per-table entries.
TableSum(bt, c) == SumOver(DOMAIN bt, [t \in DOMAIN bt |-> bt[t][c]])

\* The rows of a per-table entry that have been counted.
Counted(per) == per.inserted + per.updated + per.errors + per.skipped

\* C22: in every state of a run each run-wide counter is the sum of that
\* counter over the per-table entries, and no table has more rows counted
\* (inserted + updated + errors + skipped) than rows seen (total); the summary
\* carries the same counters.
C22_CountersConsistent ==
    \A inv \in Invs :
        LET bt == byTable[StateSlot(inv)]
            tot == totals[StateSlot(inv)]
        IN  /\ \A c \in CounterNames : tot[c] = TableSum(bt, c)
            /\ \A t \in DOMAIN bt : Counted(bt[t]) <= bt[t].total
            /\ outcome[inv] = "summary" =>
                   /\ \A c \in CounterNames :
                          summary[inv].counts[c] = TableSum(summary[inv].tables, c)
                   /\ \A t \in DOMAIN summary[inv].tables :
                          Counted(summary[inv].tables[t]) <= summary[inv].tables[t].total

C22_Witness ==
    /\ outcome[1] = "summary"
    /\ Cardinality(DOMAIN summary[1].tables) >= 2
    /\ \A t \in DOMAIN summary[1].tables : summary[1].tables[t].total = MaxRows
    /\ summary[1].counts.errors >= 1
    /\ summary[1].counts.inserted >= 1
    /\ summary[1].counts.updated >= 1
    /\ \E t \in DOMAIN summary[1].tables :
         Counted(summary[1].tables[t]) < summary[1].tables[t].total

\* C23: an invocation that has reported its terminal result, summary or
\* error, has closed the connection it opened, and a statement it prepared is
\* finalized before the batch's transaction scope has ended: none is left
\* once the handler is past the batch.
C23_ConnectionAndStatementsReleased ==
    \A inv \in Invs :
        /\ Ended(inv) => ~conn[inv].open
        /\ pc[inv] \in {"group", "map", "begin", "publish", "close", "done", "failed"}
           => conn[inv].stmts = 0

\* C24: under autoMap every own field of every source row of the group is a
\* column of the insert the row is bound to, whatever the fields of the rows
\* before it, and a group that has a row with fields runs its insert even when
\* its first source row is not a record.
C24_AutoMapWritesEveryField ==
    \A inv \in Invs :
        /\ (/\ pc[inv] \in {"begin", "prepare", "exec", "rollback", "publish"}
            /\ RunCfg(inv).groups[gi[inv]].autoMap)
           => \A i \in 1..Len(rowsIn[inv]) :
                  rowsIn[inv][i].isObj
                  => DOMAIN rowsIn[inv][i].f \subseteq Range(cols[inv])
        /\ (/\ pc[inv] = "group" /\ gi[inv] > 1
            /\ RunCfg(inv).groups[gi[inv] - 1].table # ""
            /\ RunCfg(inv).groups[gi[inv] - 1].autoMap
            /\ \E i \in 1..Len(rowsIn[inv]) :
                   rowsIn[inv][i].isObj /\ DOMAIN rowsIn[inv][i].f # {})
           => GroupHist(hist[inv], gi[inv] - 1).begun >= 1

\* The open nodes that started watching the config path.
Watching == {n \in DOMAIN nodes : nodes[n].st = "ready" /\ nodes[n].watching}

\* C25: the reference count of the path's watcher is the number of open nodes
\* that started watching the path, and the watcher exists exactly while there
\* is such a node: closing a node that never started watching releases
\* nothing.
C25_WatcherCountMatchesNodes ==
    /\ watchers.exists <=> Watching # {}
    /\ watchers.exists => watchers.count = Cardinality(Watching)

====
